---- MODULE Spec2Model ----
\* A model of the Reproductor music player: the doubly linked playlist
\* (models/doubly-linked-list.ts), the playback controller (AppComponent) and the
\* ID3v2 artwork extraction (AppComponent.extractArtworkUrl).
EXTENDS Integers, Sequences, FiniteSets, TLC

\* ------------------------------------------------------------------ bounds

\* Nodes the list specification may allocate.
MaxListNodes == 4
\* Tracks the controller specification may create.
MaxTracks == 2
\* Tracks the removal specification may create.
MaxRemovalTracks == 3

MaxOfBounds(a, b) == IF a > b THEN a ELSE b
MaxNodes == MaxOfBounds(MaxListNodes, MaxOfBounds(MaxTracks, MaxRemovalTracks))
Nodes == 1..MaxNodes

\* ------------------------------------------------------------------ the list
\* A list is a record: head, tail, length and the nodes' fields next, prev, value
\* (functions of the node), plus alloc, the number of nodes created so far. Nodes
\* are identified by the order of their creation; NULL is the null reference.

NULL == 0

EmptyList ==
  [head |-> NULL, tail |-> NULL, length |-> 0,
   next |-> [n \in Nodes |-> NULL], prev |-> [n \in Nodes |-> NULL],
   value |-> [n \in Nodes |-> NULL], alloc |-> 0]

\* createNode: a fresh node { value, next: null, prev: null }.
createNode(L, v) ==
  LET n == L.alloc + 1 IN
  [list |-> [L EXCEPT !.alloc = n, !.value[n] = v, !.next[n] = NULL, !.prev[n] = NULL],
   node |-> n]

insertAtStart(L, v) ==
  LET c == createNode(L, v)
      n == c.node
      M == c.list
  IN IF M.head = NULL
     THEN [list |-> [M EXCEPT !.head = n, !.tail = n, !.length = @ + 1], node |-> n]
     ELSE [list |-> [M EXCEPT !.next[n] = M.head, !.prev[M.head] = n, !.head = n,
                              !.length = @ + 1],
           node |-> n]

insertAtEnd(L, v) ==
  LET c == createNode(L, v)
      n == c.node
      M == c.list
  IN IF M.tail = NULL
     THEN [list |-> [M EXCEPT !.head = n, !.tail = n, !.length = @ + 1], node |-> n]
     ELSE [list |-> [M EXCEPT !.prev[n] = M.tail, !.next[M.tail] = n, !.tail = n,
                              !.length = @ + 1],
           node |-> n]

\* The two loops of getNodeAt: while (steps > 0 && current) current = current.next
RECURSIVE walkNext(_, _, _)
walkNext(L, current, steps) ==
  IF steps > 0 /\ current # NULL THEN walkNext(L, L.next[current], steps - 1) ELSE current

RECURSIVE walkPrev(_, _, _)
walkPrev(L, current, steps) ==
  IF steps > 0 /\ current # NULL THEN walkPrev(L, L.prev[current], steps - 1) ELSE current

\* index <= length / 2 is a comparison of reals: 2 * index <= length.
getNodeAtTailOffByOne(L, index) ==
  IF index < 0 \/ index >= L.length THEN NULL
  ELSE IF 2 * index <= L.length
       THEN walkNext(L, L.head, index)
       ELSE walkPrev(L, L.tail, L.length - index)

getNodeAt(L, index) ==
  IF index < 0 \/ index >= L.length THEN NULL
  ELSE IF 2 * index <= L.length
       THEN walkNext(L, L.head, index)
       ELSE walkPrev(L, L.tail, L.length - 1 - index)

\* Forward traversal from `current`, as the loops of toArray and indexOfNode do it.
\* A cyclic chain would make those loops run forever; the walk here stops after
\* MaxNodes + 1 nodes, which is longer than any chain without a cycle.
RECURSIVE forward(_, _, _)
forward(L, current, fuel) ==
  IF current = NULL \/ fuel = 0 THEN <<>>
  ELSE <<current>> \o forward(L, L.next[current], fuel - 1)

RECURSIVE backward(_, _, _)
backward(L, current, fuel) ==
  IF current = NULL \/ fuel = 0 THEN <<>>
  ELSE <<current>> \o backward(L, L.prev[current], fuel - 1)

nodesForward(L) == forward(L, L.head, MaxNodes + 1)
nodesBackward(L) == backward(L, L.tail, MaxNodes + 1)

toArray(L) == LET ns == nodesForward(L) IN [i \in 1..Len(ns) |-> L.value[ns[i]]]

indexOfNode(L, node) ==
  IF node = NULL THEN -1
  ELSE LET ns == nodesForward(L)
           hits == {i \in 1..Len(ns) : ns[i] = node}
       IN IF hits = {} THEN -1
          ELSE (CHOOSE i \in hits : \A j \in hits : i <= j) - 1

MinOf(x, y) == IF x < y THEN x ELSE y
MaxOf(x, y) == IF x > y THEN x ELSE y
Max0(x) == MaxOf(0, x)

detachNodeKeepTail(L, node) ==
  LET L1 == IF L.prev[node] # NULL
            THEN [L EXCEPT !.next[L.prev[node]] = L.next[node]]
            ELSE [L EXCEPT !.head = L.next[node]]
      L2 == IF L1.next[node] # NULL
            THEN [L1 EXCEPT !.prev[L1.next[node]] = L1.prev[node]]
            ELSE L1
  IN [L2 EXCEPT !.length = Max0(@ - 1), !.next[node] = NULL, !.prev[node] = NULL]

detachNodeKeepPredecessorLink(L, node) ==
  LET L1 == IF L.prev[node] # NULL THEN L ELSE [L EXCEPT !.head = L.next[node]]
      L2 == IF L1.next[node] # NULL
            THEN [L1 EXCEPT !.prev[L1.next[node]] = L1.prev[node]]
            ELSE [L1 EXCEPT !.tail = L1.prev[node]]
  IN [L2 EXCEPT !.length = Max0(@ - 1), !.next[node] = NULL, !.prev[node] = NULL]

detachNode(L, node) ==
  LET L1 == IF L.prev[node] # NULL
            THEN [L EXCEPT !.next[L.prev[node]] = L.next[node]]
            ELSE [L EXCEPT !.head = L.next[node]]
      L2 == IF L1.next[node] # NULL
            THEN [L1 EXCEPT !.prev[L1.next[node]] = L1.prev[node]]
            ELSE [L1 EXCEPT !.tail = L1.prev[node]]
  IN [L2 EXCEPT !.length = Max0(@ - 1), !.next[node] = NULL, !.prev[node] = NULL]

insertAtStrictStart(L, v, index) ==
  IF index < 0 \/ L.head = NULL THEN insertAtStart(L, v)
  ELSE IF index >= L.length THEN insertAtEnd(L, v)
  ELSE LET current == getNodeAt(L, index) IN
       IF current = NULL THEN insertAtEnd(L, v)
       ELSE LET c == createNode(L, v)
                n == c.node
                M == c.list
                M1 == [M EXCEPT !.prev[n] = M.prev[current], !.next[n] = current]
                M2 == IF M1.prev[current] # NULL
                      THEN [M1 EXCEPT !.next[M1.prev[current]] = n]
                      ELSE M1
            IN [list |-> [M2 EXCEPT !.prev[current] = n, !.length = @ + 1], node |-> n]

insertAt(L, v, index) ==
  IF index <= 0 \/ L.head = NULL THEN insertAtStart(L, v)
  ELSE IF index >= L.length THEN insertAtEnd(L, v)
  ELSE LET current == getNodeAt(L, index) IN
       IF current = NULL THEN insertAtEnd(L, v)
       ELSE LET c == createNode(L, v)
                n == c.node
                M == c.list
                M1 == [M EXCEPT !.prev[n] = M.prev[current], !.next[n] = current]
                M2 == IF M1.prev[current] # NULL
                      THEN [M1 EXCEPT !.next[M1.prev[current]] = n]
                      ELSE M1
            IN [list |-> [M2 EXCEPT !.prev[current] = n, !.length = @ + 1], node |-> n]

\* The reinsertion of moveNode, after the node is detached; D is the list without
\* the node, targetIndex the clamped target.
reinsert(D, node, targetIndex) ==
  IF D.head = NULL \/ D.length = 0
  THEN [D EXCEPT !.head = node, !.tail = node, !.length = 1]
  ELSE LET R == IF targetIndex = 0
                THEN [D EXCEPT !.next[node] = D.head, !.prev[D.head] = node, !.head = node]
                ELSE IF targetIndex = D.length
                THEN LET A == [D EXCEPT !.prev[node] = D.tail]
                         B == IF A.tail # NULL THEN [A EXCEPT !.next[A.tail] = node] ELSE A
                     IN [B EXCEPT !.tail = node]
                ELSE LET target == getNodeAt(D, targetIndex) IN
                     IF target = NULL
                     THEN LET A == [D EXCEPT !.prev[node] = D.tail]
                              B == IF A.tail # NULL THEN [A EXCEPT !.next[A.tail] = node] ELSE A
                          IN [B EXCEPT !.tail = node]
                     ELSE LET A == [D EXCEPT !.next[node] = target,
                                             !.prev[node] = D.prev[target]]
                              B == IF A.prev[target] # NULL
                                   THEN [A EXCEPT !.next[A.prev[target]] = node]
                                   ELSE [A EXCEPT !.head = node]
                          IN [B EXCEPT !.prev[target] = node]
       IN [R EXCEPT !.length = @ + 1]

\* The clamp of moveNode's target, against the length after the detachment.
clampTargetNoLower(D, toIndex) == IF toIndex > D.length THEN D.length ELSE toIndex

clampTarget(D, toIndex) ==
  LET t0 == IF toIndex < 0 THEN 0 ELSE toIndex
  IN IF t0 > D.length THEN D.length ELSE t0

moveNodeSameIndexReturnsNull(L, fromIndex, toIndex) ==
  IF fromIndex = toIndex THEN [list |-> L, node |-> NULL]
  ELSE LET node == getNodeAt(L, fromIndex) IN
       IF node = NULL THEN [list |-> L, node |-> NULL]
       ELSE LET D == detachNode(L, node)
            IN [list |-> reinsert(D, node, clampTarget(D, toIndex)), node |-> node]

moveNode(L, fromIndex, toIndex) ==
  IF fromIndex = toIndex THEN [list |-> L, node |-> getNodeAt(L, fromIndex)]
  ELSE LET node == getNodeAt(L, fromIndex) IN
       IF node = NULL THEN [list |-> L, node |-> NULL]
       ELSE LET D == detachNode(L, node)
            IN [list |-> reinsert(D, node, clampTarget(D, toIndex)), node |-> node]

removeNode(L, node) ==
  IF node = NULL THEN [list |-> L, node |-> NULL]
  ELSE LET D == detachNode(L, node)
       IN [list |-> [D EXCEPT !.next[node] = NULL, !.prev[node] = NULL], node |-> node]

removeAt(L, index) == removeNode(L, getNodeAt(L, index))

\* ------------------------------------------------------------------ state

VARIABLES
  playlist,          \* the DoublyLinkedList (AppComponent.playlist in the controller)
  last,              \* the last operation: its name, arguments and returned value
  currentNode,       \* AppComponent.currentNode: the cursor, a node or NULL
  tracks,            \* AppComponent.tracks: the snapshot array of tracks
  currentTrackIndex, \* AppComponent.currentTrackIndex
  isPlaying,         \* AppComponent.isPlaying
  isLoadingTrack,    \* AppComponent.isLoadingTrack
  currentTime,       \* AppComponent.currentTime
  duration,          \* AppComponent.duration
  audio,             \* the playback handle: src, paused, currentTime, duration
  trackDuration,     \* Track.duration of every track (0: not known yet)
  trackFile,         \* Track.file of every track (NoFile: no such track)
  pendingPlay,       \* the cursors for which a play() promise is not settled yet
  batches,           \* the onFilesSelected calls suspended at their await, each
                     \* with its accepted files
  released,          \* how often releaseTrackResources was called on every track
  destroyed,         \* whether ngOnDestroy has run
  file,              \* the bytes of the file given to extractArtworkUrl
  artwork            \* what extractArtworkUrl returned for it

ctlVars == <<currentNode, tracks, currentTrackIndex, isPlaying, isLoadingTrack,
             currentTime, duration, audio, trackDuration, trackFile, pendingPlay,
             batches, released, destroyed>>
id3Vars == <<file, artwork>>
vars == <<playlist, last, ctlVars, id3Vars>>

NoOp == [op |-> "init", a |-> 0, b |-> 0, ret |-> NULL]


\* ------------------------------------------------------------------ sequences

SeqWithout(s, i) == [k \in 1..(Len(s) - 1) |-> IF k < i THEN s[k] ELSE s[k + 1]]
SeqWith(s, i, x) ==
  [k \in 1..(Len(s) + 1) |-> IF k < i THEN s[k] ELSE IF k = i THEN x ELSE s[k - 1]]

\* ------------------------------------------------------------------ numbers
\* Times and durations are integers (seconds); the three non-finite numbers of
\* JavaScript are values outside the range the model uses.

NaN == -1000
PosInf == 1000
NegInf == -1001
IsFinite(x) == x \notin {NaN, PosInf, NegInf}

\* ------------------------------------------------------------------ embedded artwork
\* A file is its bytes; an offset counts from 0 as in the code. A string is the
\* sequence of its character codes. The URL that URL.createObjectURL(new
\* Blob([imageBytes], {type})) returns stands for the blob: its type and bytes.

NoArtwork == [kind |-> "none"]
Pending == [kind |-> "pending"]

Id3Marker == <<73, 68, 51>>
ApicId == <<65, 80, 73, 67>>
ImagePng == <<105, 109, 97, 103, 101, 47, 112, 110, 103>>
ImageJpeg == <<105, 109, 97, 103, 101, 47, 106, 112, 101, 103>>

\* a | b on non-negative integers
RECURSIVE BitOr(_, _)
BitOr(a, b) ==
  IF a = 0 THEN b
  ELSE IF b = 0 THEN a
  ELSE (IF a % 2 = 1 \/ b % 2 = 1 THEN 1 ELSE 0) + 2 * BitOr(a \div 2, b \div 2)

\* (flags & mask) !== 0 for a mask of one bit
BitSet(flags, mask) == (flags \div mask) % 2 = 1

\* blob.slice(start, end), typedArray.subarray(start, end)
slice(bytes, start, end) == SubSeq(bytes, start + 1, MinOf(end, Len(bytes)))

\* typedArray.indexOf(value, from)
RECURSIVE indexOf(_, _, _)
indexOf(bytes, value, from) ==
  IF from >= Len(bytes) THEN -1
  ELSE IF bytes[from + 1] = value THEN from
  ELSE indexOf(bytes, value, from + 1)

\* dataView.getUint32(offset): big-endian
getUint32(view, offset) ==
  view[offset + 1] * 16777216 + view[offset + 2] * 65536
    + view[offset + 3] * 256 + view[offset + 4]

\* A byte is at most 255, so that no shift leaves the 32 bits of the operands.
readSynchsafeInteger(bytes, offset) ==
  IF offset + 4 > Len(bytes) THEN 0
  ELSE BitOr(BitOr(BitOr(bytes[offset + 1] * 2097152, bytes[offset + 2] * 16384),
                   bytes[offset + 3] * 128),
             bytes[offset + 4])

readSynchsafeFromView(view, offset) ==
  IF offset + 4 > Len(view) THEN 0
  ELSE BitOr(BitOr(BitOr(view[offset + 1] * 2097152, view[offset + 2] * 16384),
                   view[offset + 3] * 128),
             view[offset + 4])

\* /^[A-Z0-9]{4}$/
IsFrameIdChar(c) == (65 <= c /\ c <= 90) \/ (48 <= c /\ c <= 57)

\* The empty sequence is the empty string.
decodeFrameId(bytes, offset) ==
  IF offset + 4 > Len(bytes) THEN <<>>
  ELSE LET chars == SubSeq(bytes, offset + 1, offset + 4) IN
       IF \A i \in 1..4 : IsFrameIdChar(chars[i]) THEN chars ELSE <<>>

RECURSIVE skipToNull(_, _, _)
skipToNull(data, offset, end) ==
  IF offset < end /\ data[offset + 1] # 0
  THEN skipToNull(data, offset + 1, end)
  ELSE offset

RECURSIVE skipToNullPair(_, _, _)
skipToNullPair(data, offset, end) ==
  IF offset + 1 < end
  THEN IF data[offset + 1] = 0 /\ data[offset + 2] = 0
       THEN MinOf(offset + 2, end)
       ELSE skipToNullPair(data, offset + 2, end)
  ELSE end

advancePastEncodedStringKeepNull(data, offset, end, encoding) ==
  IF offset >= end THEN end
  ELSE IF encoding = 0 \/ encoding = 3
  THEN MinOf(skipToNull(data, offset, end), end)
  ELSE skipToNullPair(data, offset, end)

advancePastEncodedString(data, offset, end, encoding) ==
  IF offset >= end THEN end
  ELSE IF encoding = 0 \/ encoding = 3
  THEN MinOf(skipToNull(data, offset, end) + 1, end)
  ELSE skipToNullPair(data, offset, end)

\* TextDecoder('iso-8859-1').decode: an ASCII byte is the character of its code;
\* the MIME bytes of the files of this model are ASCII.
latin1Decode(bytes) == bytes

WhiteSpace == {9, 10, 11, 12, 13, 32, 160}

RECURSIVE trimStart(_)
trimStart(s) ==
  IF s # <<>> /\ Head(s) \in WhiteSpace THEN trimStart(Tail(s)) ELSE s

RECURSIVE trimEnd(_)
trimEnd(s) ==
  IF s # <<>> /\ s[Len(s)] \in WhiteSpace THEN trimEnd(SubSeq(s, 1, Len(s) - 1)) ELSE s

trim(s) == trimEnd(trimStart(s))

toLowerCase(s) == [i \in 1..Len(s) |-> IF 65 <= s[i] /\ s[i] <= 90 THEN s[i] + 32 ELSE s[i]]

\* new Blob(parts, {type}): the type is kept in lower case when all its
\* characters are in U+0020..U+007E, and is empty otherwise.
blobType(type) ==
  IF \A i \in 1..Len(type) : 32 <= type[i] /\ type[i] <= 126
  THEN toLowerCase(type)
  ELSE <<>>

parseApicFrameKeepsPictureType(frameData) ==
  IF Len(frameData) < 4 THEN NoArtwork
  ELSE
    LET textEncoding == frameData[1]
        mimeTerminator == indexOf(frameData, 0, 1)
    IN
    IF mimeTerminator = -1 THEN NoArtwork
    ELSE
      LET mimeBytes == slice(frameData, 1, mimeTerminator)
          decoded == trim(latin1Decode(mimeBytes))
          mimeType == toLowerCase(IF decoded = <<>> THEN ImageJpeg ELSE decoded)
          cursor == mimeTerminator + 1
      IN
      IF cursor >= Len(frameData) THEN NoArtwork
      ELSE
        LET imageStart == advancePastEncodedString(frameData, cursor,
                                                   Len(frameData), textEncoding)
        IN
        IF imageStart >= Len(frameData) THEN NoArtwork
        ELSE [kind |-> "image",
              type |-> blobType(mimeType),
              bytes |-> slice(frameData, imageStart, Len(frameData))]

parseApicFrame(frameData) ==
  IF Len(frameData) < 4 THEN NoArtwork
  ELSE
    LET textEncoding == frameData[1]
        mimeTerminator == indexOf(frameData, 0, 1)
    IN
    IF mimeTerminator = -1 THEN NoArtwork
    ELSE
      LET mimeBytes == slice(frameData, 1, mimeTerminator)
          decoded == trim(latin1Decode(mimeBytes))
          mimeType == toLowerCase(IF decoded = <<>> THEN ImageJpeg ELSE decoded)
          cursor == mimeTerminator + 1
      IN
      IF cursor >= Len(frameData) THEN NoArtwork
      ELSE
        LET imageStart == advancePastEncodedString(frameData, cursor + 1,
                                                   Len(frameData), textEncoding)
        IN
        IF imageStart >= Len(frameData) THEN NoArtwork
        ELSE [kind |-> "image",
              type |-> blobType(mimeType),
              bytes |-> slice(frameData, imageStart, Len(frameData))]

\* The tag that extractArtworkUrl walks: the bytes read after the header, without
\* the last 10 when the footer flag is set. Empty when extraction stops before.
tagBody(fileBytes) ==
  LET header == slice(fileBytes, 0, 10) IN
  IF Len(header) < 10 \/ SubSeq(header, 1, 3) # Id3Marker \/ header[4] < 3
  THEN <<>>
  ELSE LET tagBuffer == slice(fileBytes, 10, 10 + readSynchsafeInteger(header, 6))
           tagLength == IF BitSet(header[6], 16) /\ Len(tagBuffer) >= 10
                        THEN Len(tagBuffer) - 10
                        ELSE Len(tagBuffer)
       IN SubSeq(tagBuffer, 1, tagLength)

\* The offsets of the tag that the loop over the frames reads, and why the loop
\* ends: "exhausted" (no room for a frame header), "padding", "frameId", "size"
\* (not positive), "overrun" (the frame's data ends after the tag) or "image".
RECURSIVE walkTrace(_, _, _)
walkTrace(tag, version, offset) ==
  IF offset + 10 > Len(tag) THEN [reads |-> {}, end |-> "exhausted"]
  ELSE IF tag[offset + 1] = 0 THEN [reads |-> {offset}, end |-> "padding"]
  ELSE IF decodeFrameId(tag, offset) = <<>>
  THEN [reads |-> offset..(offset + 3), end |-> "frameId"]
  ELSE
    LET frameSize == IF version = 4 THEN readSynchsafeFromView(tag, offset + 4)
                     ELSE getUint32(tag, offset + 4)
        frameDataEnd == offset + 10 + frameSize
        header == offset..(offset + 7)
    IN
    IF frameSize < 1 THEN [reads |-> header, end |-> "size"]
    ELSE IF frameDataEnd > Len(tag) THEN [reads |-> header, end |-> "overrun"]
    ELSE IF /\ decodeFrameId(tag, offset) = ApicId
            /\ parseApicFrame(slice(tag, offset + 10, frameDataEnd)) # NoArtwork
    THEN [reads |-> header \cup ((offset + 10)..(frameDataEnd - 1)), end |-> "image"]
    ELSE LET rest == walkTrace(tag, version, frameDataEnd) IN
         [reads |-> header
                    \cup (IF decodeFrameId(tag, offset) = ApicId
                          THEN (offset + 10)..(frameDataEnd - 1) ELSE {})
                    \cup rest.reads,
          end |-> rest.end]

RECURSIVE walkFramesNoOverrunCheck(_, _, _)
walkFramesNoOverrunCheck(tag, version, offset) ==
  IF offset + 10 > Len(tag) THEN NoArtwork
  ELSE IF tag[offset + 1] = 0 THEN NoArtwork
  ELSE IF decodeFrameId(tag, offset) = <<>> THEN NoArtwork
  ELSE
    LET frameId == decodeFrameId(tag, offset)
        frameSize == IF version = 4 THEN readSynchsafeFromView(tag, offset + 4)
                     ELSE getUint32(tag, offset + 4)
        frameDataStart == offset + 10
        frameDataEnd == frameDataStart + frameSize
        found == IF frameId = ApicId
                 THEN parseApicFrame(slice(tag, frameDataStart, frameDataEnd))
                 ELSE NoArtwork
    IN
    IF frameSize < 1 THEN NoArtwork
    ELSE IF found # NoArtwork THEN found
    ELSE walkFramesNoOverrunCheck(tag, version, frameDataEnd)

\* the extended header to skip
extendedHeaderSkip(tag, version, flags) ==
  IF BitSet(flags, 64) /\ Len(tag) >= 4
  THEN IF version = 3 THEN MinOf(getUint32(tag, 0) + 4, Len(tag))
       ELSE IF version = 4 THEN MinOf(readSynchsafeFromView(tag, 0), Len(tag))
       ELSE 0
  ELSE 0

\* the loop over the frames of the tag
RECURSIVE walkFrames(_, _, _)
walkFrames(tag, version, offset) ==
  IF offset + 10 > Len(tag) THEN NoArtwork
  ELSE IF tag[offset + 1] = 0 THEN NoArtwork
  ELSE IF decodeFrameId(tag, offset) = <<>> THEN NoArtwork
  ELSE
    LET frameId == decodeFrameId(tag, offset)
        frameSize == IF version = 4 THEN readSynchsafeFromView(tag, offset + 4)
                     ELSE getUint32(tag, offset + 4)
        frameDataStart == offset + 10
        frameDataEnd == frameDataStart + frameSize
        found == IF frameId = ApicId
                 THEN parseApicFrame(slice(tag, frameDataStart, frameDataEnd))
                 ELSE NoArtwork
    IN
    IF frameSize < 1 THEN NoArtwork
    ELSE IF frameDataEnd > Len(tag) THEN NoArtwork
    ELSE IF found # NoArtwork THEN found
    ELSE walkFrames(tag, version, frameDataEnd)

extractArtworkUrl(fileBytes) ==
  LET header == slice(fileBytes, 0, 10) IN
  IF Len(header) < 10 THEN NoArtwork
  ELSE IF SubSeq(header, 1, 3) # Id3Marker THEN NoArtwork
  ELSE
    LET version == header[4]
        flags == header[6]
        tagSize == readSynchsafeInteger(header, 6)
        tagBuffer == slice(fileBytes, 10, 10 + tagSize)
        tagLength == IF BitSet(flags, 16) /\ Len(tagBuffer) >= 10
                     THEN Len(tagBuffer) - 10
                     ELSE Len(tagBuffer)
        tag == SubSeq(tagBuffer, 1, tagLength)
    IN
    IF version < 3 THEN NoArtwork
    ELSE IF tagSize = 0 THEN NoArtwork
    ELSE IF Len(tagBuffer) = 0 THEN NoArtwork
    ELSE walkFrames(tag, version, extendedHeaderSkip(tag, version, flags))

\* ------------------------------------------------------------------ the platform
\* Files the user may pick: three audio files and one that is not audio. A file is
\* its name and size; two picks of the same file have the same name and size.
AudioFiles == {"a.mp3", "b.mp3", "c.mp3"}
OtherFiles == {"notes.txt"}
Files == AudioFiles \cup OtherFiles
NoFile == "none"
IsAudio(f) == f \in AudioFiles

\* Every audio file is this long; the handle reports it once the metadata is read.
TrackLen == 8
\* The positions playback reports on its way (timeupdate).
Times == {5, 7}
\* The values a caller may seek to: negative, zero, inside a track, beyond its
\* end, and the non-finite ones.
SeekValues == {-3, 0, 5, 9, NaN, PosInf, NegInf}
\* The seeks of the controller specification, which is about everything else.
MainSeekValues == {0, 7}

NoAudio == [src |-> NULL, paused |-> TRUE, currentTime |-> 0, duration |-> NaN]

\* ------------------------------------------------------------------ the controller
\* The handlers are functions of the component's state S, a record of the
\* variables above.

CtlInit ==
  /\ currentNode = NULL
  /\ tracks = <<>>
  /\ currentTrackIndex = -1
  /\ isPlaying = FALSE
  /\ isLoadingTrack = FALSE
  /\ currentTime = 0
  /\ duration = 0
  /\ audio = NoAudio
  /\ trackDuration = [n \in Nodes |-> 0]
  /\ trackFile = [n \in Nodes |-> NoFile]
  /\ pendingPlay = {}
  /\ batches = <<>>
  /\ released = [n \in Nodes |-> 0]
  /\ destroyed = FALSE

State ==
  [playlist |-> playlist, currentNode |-> currentNode, tracks |-> tracks,
   currentTrackIndex |-> currentTrackIndex, isPlaying |-> isPlaying,
   isLoadingTrack |-> isLoadingTrack, currentTime |-> currentTime,
   duration |-> duration, audio |-> audio, trackDuration |-> trackDuration,
   trackFile |-> trackFile, pendingPlay |-> pendingPlay, batches |-> batches,
   released |-> released, destroyed |-> destroyed]

Assign(S) ==
  /\ playlist' = S.playlist
  /\ currentNode' = S.currentNode
  /\ tracks' = S.tracks
  /\ currentTrackIndex' = S.currentTrackIndex
  /\ isPlaying' = S.isPlaying
  /\ isLoadingTrack' = S.isLoadingTrack
  /\ currentTime' = S.currentTime
  /\ duration' = S.duration
  /\ audio' = S.audio
  /\ trackDuration' = S.trackDuration
  /\ trackFile' = S.trackFile
  /\ pendingPlay' = S.pendingPlay
  /\ batches' = S.batches
  /\ released' = S.released
  /\ destroyed' = S.destroyed

\* audio.pause()
audioPause(S) == [S EXCEPT !.audio.paused = TRUE]

\* audio.play(): the handle leaves the paused state and answers later, with
\* success or failure (PlayResolved, PlayRejected). The promises of the calls made
\* while one cursor's play is pending settle together, as one.
audioPlay(S) ==
  [S EXCEPT !.audio.paused = FALSE, !.pendingPlay = @ \cup {S.currentNode}]

\* audio.src = url; audio.load(): the handle starts over on the new source.
audioLoad(S, url) ==
  [S EXCEPT !.audio = [src |-> url, paused |-> TRUE, currentTime |-> 0, duration |-> NaN]]

\* audio.src = '': no source.
audioClear(S) ==
  [S EXCEPT !.audio = [src |-> NULL, paused |-> S.audio.paused, currentTime |-> 0,
                       duration |-> NaN]]

playInternal(S) == audioPlay(S)

\* The then-callback of playInternal.
playResolved(S) == [S EXCEPT !.isPlaying = TRUE, !.isLoadingTrack = FALSE]

\* The catch-callback of playInternal.
playRejected(S) == [S EXCEPT !.isPlaying = FALSE, !.isLoadingTrack = FALSE]

refreshSnapshotTracksOnly(S) == [S EXCEPT !.tracks = toArray(S.playlist)]

refreshPlaylistSnapshot(S) ==
  [S EXCEPT !.tracks = toArray(S.playlist),
            !.currentTrackIndex = indexOfNode(S.playlist, S.currentNode)]

selectNodeLoadsOnlyToPlay(S, node, shouldPlay) ==
  LET isSameNode == node = S.currentNode
      S1 == [S EXCEPT !.currentNode = node,
                      !.currentTrackIndex = indexOfNode(S.playlist, node)]
      track == S.playlist.value[node]
      S2 == IF ~isSameNode /\ shouldPlay
            THEN audioLoad([S1 EXCEPT !.isLoadingTrack = TRUE,
                                      !.duration = S.trackDuration[track],
                                      !.currentTime = 0],
                           track)
            ELSE S1
  IN IF shouldPlay THEN playInternal(S2) ELSE [S2 EXCEPT !.isPlaying = FALSE]

selectNodeAlwaysLoads(S, node, shouldPlay) ==
  LET S1 == [S EXCEPT !.currentNode = node,
                      !.currentTrackIndex = indexOfNode(S.playlist, node)]
      track == S.playlist.value[node]
      S2 == audioLoad([S1 EXCEPT !.isLoadingTrack = TRUE,
                                 !.duration = S.trackDuration[track],
                                 !.currentTime = 0],
                      track)
  IN IF shouldPlay THEN playInternal(S2) ELSE [S2 EXCEPT !.isPlaying = FALSE]

selectNode(S, node, shouldPlay) ==
  LET isSameNode == node = S.currentNode
      S1 == [S EXCEPT !.currentNode = node,
                      !.currentTrackIndex = indexOfNode(S.playlist, node)]
      track == S.playlist.value[node]
      S2 == IF ~isSameNode
            THEN audioLoad([S1 EXCEPT !.isLoadingTrack = TRUE,
                                      !.duration = S.trackDuration[track],
                                      !.currentTime = 0],
                           track)
            ELSE S1
  IN IF shouldPlay THEN playInternal(S2) ELSE [S2 EXCEPT !.isPlaying = FALSE]

seekToClamp(S, value) ==
  LET maxBoundary == IF IsFinite(S.audio.duration) /\ S.audio.duration > 0
                     THEN S.audio.duration
                     ELSE MaxOf(S.duration, value)
  IN MinOf(MaxOf(value, 0), IF maxBoundary # 0 THEN maxBoundary ELSE value)

seekToNoFiniteCheck(S, value) ==
  LET S1 == [S EXCEPT !.audio.currentTime = seekToClamp(S, value)]
  IN [S1 EXCEPT !.currentTime = S1.audio.currentTime]

seekTo(S, value) ==
  IF ~IsFinite(value) THEN S
  ELSE LET S1 == [S EXCEPT !.audio.currentTime = seekToClamp(S, value)]
       IN [S1 EXCEPT !.currentTime = S1.audio.currentTime]

playTrack(S, index) ==
  IF index < 0 \/ index >= Len(S.tracks) THEN S
  ELSE LET node == getNodeAt(S.playlist, index) IN
       IF node = NULL THEN S ELSE selectNode(S, node, TRUE)

togglePlaybackPauseKeepsPlaying(S) ==
  IF Len(S.tracks) = 0 THEN S
  ELSE IF S.currentNode = NULL
  THEN LET head == S.playlist.head IN
       IF head # NULL THEN selectNode(S, head, TRUE) ELSE S
  ELSE IF S.audio.paused THEN playInternal(S)
  ELSE audioPause(S)

togglePlayback(S) ==
  IF Len(S.tracks) = 0 THEN S
  ELSE IF S.currentNode = NULL
  THEN LET head == S.playlist.head IN
       IF head # NULL THEN selectNode(S, head, TRUE) ELSE S
  ELSE IF S.audio.paused THEN playInternal(S)
  ELSE [audioPause(S) EXCEPT !.isPlaying = FALSE]

RestartThreshold == 5

previousTrackRestartAtThreshold(S) ==
  IF S.currentNode = NULL THEN S
  ELSE IF S.audio.currentTime >= RestartThreshold THEN seekTo(S, 0)
  ELSE LET prevNode == S.playlist.prev[S.currentNode] IN
       IF prevNode # NULL THEN selectNode(S, prevNode, TRUE) ELSE S

previousTrack(S) ==
  IF S.currentNode = NULL THEN S
  ELSE IF S.audio.currentTime > RestartThreshold THEN seekTo(S, 0)
  ELSE LET prevNode == S.playlist.prev[S.currentNode] IN
       IF prevNode # NULL THEN selectNode(S, prevNode, TRUE) ELSE S

nextTrackNoRewind(S) ==
  IF S.currentNode = NULL THEN S
  ELSE LET nextNode == S.playlist.next[S.currentNode] IN
       IF nextNode # NULL THEN selectNode(S, nextNode, TRUE)
       ELSE [audioPause(S) EXCEPT !.isPlaying = FALSE]

nextTrack(S) ==
  IF S.currentNode = NULL THEN S
  ELSE LET nextNode == S.playlist.next[S.currentNode] IN
       IF nextNode # NULL THEN selectNode(S, nextNode, TRUE)
       ELSE seekTo([audioPause(S) EXCEPT !.isPlaying = FALSE], 0)

replacementPrevFirst(nextNode, prevNode) ==
  IF prevNode # NULL THEN prevNode ELSE nextNode

replacementNextOnly(nextNode, prevNode) == nextNode

\* const replacement = nextNode ?? prevNode ?? null
replacementOf(nextNode, prevNode) == IF nextNode # NULL THEN nextNode ELSE prevNode

\* URL.revokeObjectURL of the track's url and of its artworkUrl, if it has one
releaseTrackResources(S, track) == [S EXCEPT !.released[track] = @ + 1]

removeTrack(S, index) ==
  LET node == getNodeAt(S.playlist, index) IN
  IF node = NULL THEN S
  ELSE LET nextNode == S.playlist.next[node]
           prevNode == S.playlist.prev[node]
           wasCurrent == node = S.currentNode
           wasPlaying == S.isPlaying
           trackToRemove == S.playlist.value[node]
           S1 == releaseTrackResources(
                   [S EXCEPT !.playlist = removeNode(S.playlist, node).list],
                   trackToRemove)
           S2 == IF wasCurrent
                 THEN LET P == [audioPause(S1) EXCEPT !.isPlaying = FALSE,
                                                      !.isLoadingTrack = FALSE]
                          replacement == replacementOf(nextNode, prevNode)
                      IN IF replacement # NULL
                         THEN selectNode(P, replacement, wasPlaying)
                         ELSE audioClear([P EXCEPT !.currentNode = NULL,
                                                   !.currentTrackIndex = -1,
                                                   !.duration = 0,
                                                   !.currentTime = 0])
                 ELSE S1
       IN refreshPlaylistSnapshot(S2)

onQueueDropNoRefresh(S, previousIndex, currentIndex) ==
  IF previousIndex = currentIndex THEN S
  ELSE LET r == moveNode(S.playlist, previousIndex, currentIndex) IN
       IF r.node = NULL THEN S
       ELSE LET S1 == [S EXCEPT !.playlist = r.list]
            IN IF S1.currentNode = r.node
               THEN [S1 EXCEPT !.currentTrackIndex =
                                  indexOfNode(S1.playlist, S1.currentNode),
                               !.tracks = toArray(S1.playlist)]
               ELSE [S1 EXCEPT !.tracks = toArray(S1.playlist)]

onQueueDrop(S, previousIndex, currentIndex) ==
  IF previousIndex = currentIndex THEN S
  ELSE LET r == moveNode(S.playlist, previousIndex, currentIndex) IN
       IF r.node = NULL THEN S
       ELSE LET S1 == [S EXCEPT !.playlist = r.list]
                S2 == IF S1.currentNode = r.node
                      THEN [S1 EXCEPT !.currentTrackIndex =
                                         indexOfNode(S1.playlist, S1.currentNode)]
                      ELSE S1
            IN refreshPlaylistSnapshot(S2)

RECURSIVE releaseAll(_, _)
releaseAll(S, trackList) ==
  IF trackList = <<>> THEN S
  ELSE releaseAll(releaseTrackResources(S, Head(trackList)), Tail(trackList))

\* The listeners of the handle are removed: no event reaches the controller later.
ngOnDestroy(S) ==
  [releaseAll(audioPause(S), toArray(S.playlist)) EXCEPT !.destroyed = TRUE]

onLoadedMetadata(S) ==
  LET d == IF IsFinite(S.audio.duration) THEN S.audio.duration ELSE 0
      S1 == [S EXCEPT !.duration = d]
      S2 == IF S1.currentNode # NULL
            THEN [S1 EXCEPT !.trackDuration[S1.playlist.value[S1.currentNode]] = d]
            ELSE S1
  IN [S2 EXCEPT !.isLoadingTrack = FALSE]

onTimeUpdate(S) == [S EXCEPT !.currentTime = S.audio.currentTime]

onTrackEnded(S) == nextTrack(S)

\* onFilesSelected up to its await: the files that are audio and that no track of
\* the snapshot has.
RECURSIVE KeepOnly(_, _)
KeepOnly(s, keep) ==
  IF s = <<>> THEN <<>>
  ELSE (IF s[1] \in keep THEN <<s[1]>> ELSE <<>>) \o KeepOnly(Tail(s), keep)

uniqueAudioFiles(S, files) ==
  KeepOnly(files, {f \in Files : /\ IsAudio(f)
                                  /\ ~\E i \in 1..Len(S.tracks) :
                                        S.trackFile[S.tracks[i]] = f})

\* onFilesSelected after its await: one track per accepted file, appended.
RECURSIVE appendTracks(_, _)
appendTracks(S, files) ==
  IF files = <<>> THEN S
  ELSE LET track == S.playlist.alloc + 1
           r == insertAtEnd(S.playlist, track)
       IN appendTracks([S EXCEPT !.playlist = r.list, !.trackFile[track] = files[1]],
                       Tail(files))

filesReadyAlwaysSelects(S, files) ==
  LET firstInsertedNode == S.playlist.alloc + 1
      S1 == refreshPlaylistSnapshot(appendTracks(S, files))
  IN selectNode(S1, firstInsertedNode, TRUE)

filesReady(S, files) ==
  LET firstInsertedNode == S.playlist.alloc + 1
      S1 == refreshPlaylistSnapshot(appendTracks(S, files))
  IN IF S1.currentNode = NULL
     THEN selectNode(S1, firstInsertedNode, TRUE)
     ELSE S1


\* ------------------------------------------------------------------ the controller's steps

\* File-add batches that may be suspended at once.
MaxBatches == 1

\* What a file input may deliver: no file, one file, or two (the same file twice
\* and a file that is not audio included).
Batches ==
  {<<>>, <<"a.mp3">>, <<"b.mp3">>, <<"notes.txt">>, <<"a.mp3", "a.mp3">>,
   <<"a.mp3", "b.mp3">>, <<"notes.txt", "b.mp3">>}

\* Indices the UI may pass: in range and just out of range.
CtlIndices == -1..MaxTracks
\* Indices a drop may carry: positions of the list, and one past them.
DropIndices == 0..MaxTracks

RECURSIVE TotalLen(_)
TotalLen(ss) == IF ss = <<>> THEN 0 ELSE Len(ss[1]) + TotalLen(Tail(ss))

\* One handler run: S is the state it leaves.
Step(op, a, b, ret, S) ==
  /\ Assign(S)
  /\ last' = [op |-> op, a |-> a, b |-> b, ret |-> ret]
  /\ UNCHANGED id3Vars

Init ==
  /\ playlist = EmptyList
  /\ last = NoOp
  /\ CtlInit
  /\ file = <<>>
  /\ artwork = NoArtwork

FilesSelectedFrom(B, maxTracks) ==
  \E files \in B :
    LET accepted == uniqueAudioFiles(State, files) IN
    IF accepted = <<>>
    THEN Step("onFilesSelected", Len(files), 0, 0, State)
    ELSE /\ Len(batches) < MaxBatches
         /\ playlist.alloc + TotalLen(batches) + Len(accepted) <= maxTracks
         /\ Step("onFilesSelected", Len(files), Len(accepted), 0,
                 [State EXCEPT !.batches = Append(@, accepted)])

FilesSelected == FilesSelectedFrom(Batches, MaxTracks)

FilesReady ==
  \E k \in 1..Len(batches) :
    Step("filesReady", Len(batches[k]), 0, playlist.alloc + 1,
         filesReady([State EXCEPT !.batches = SeqWithout(batches, k)], batches[k]))

PlayTrack ==
  \E i \in CtlIndices : Step("playTrack", i, 0, 0, playTrack(State, i))

TogglePlayback == Step("togglePlayback", 0, 0, 0, togglePlayback(State))

PreviousTrack == Step("previousTrack", 0, 0, 0, previousTrack(State))

NextTrack == Step("nextTrack", 0, 0, 0, nextTrack(State))

\* last.b tells whether the removed node was the cursor, last.ret is the node.
RemoveTrack ==
  \E i \in CtlIndices :
    LET node == getNodeAt(playlist, i) IN
    Step("removeTrack", i, IF node # NULL /\ node = currentNode THEN 1 ELSE 0, node,
         removeTrack(State, i))

QueueDrop ==
  \E from \in DropIndices, to \in DropIndices :
    Step("onQueueDrop", from, to, 0, onQueueDrop(State, from, to))

SeekToFrom(V) ==
  \E v \in V :
    LET S == seekTo(State, v) IN Step("seekTo", v, 0, S.audio.currentTime, S)

SeekTo == SeekToFrom(MainSeekValues)

\* The handle answers a play request with success.
PlayResolved ==
  \E n \in pendingPlay :
    Step("playResolved", n, 0, 0,
         playResolved([State EXCEPT !.pendingPlay = @ \ {n}]))

\* The handle answers a play request with failure; it may be paused after it.
PlayRejected ==
  \E n \in pendingPlay, p \in {audio.paused, TRUE} :
    Step("playRejected", n, 0, 0,
         playRejected([State EXCEPT !.pendingPlay = @ \ {n}, !.audio.paused = p]))

\* The handle has read the metadata of its source: loadedmetadata. The event of a
\* source is dispatched while that source is the handle's: assigning a source
\* runs the handle's load algorithm, which drops the events still queued for the
\* source before.
LoadedMetadata ==
  /\ audio.src # NULL
  /\ audio.duration = NaN
  /\ Step("onLoadedMetadata", 0, 0, 0,
          onLoadedMetadata([State EXCEPT !.audio.duration = TrackLen]))

\* Playback moves on: timeupdate.
TimeUpdate ==
  \E t \in Times :
    /\ audio.src # NULL
    /\ ~audio.paused
    /\ IsFinite(audio.duration)
    /\ t > audio.currentTime
    /\ Step("onTimeUpdate", t, 0, 0,
            onTimeUpdate([State EXCEPT !.audio.currentTime = t]))

\* Playback reaches the end of the source: ended.
TrackEnded ==
  /\ audio.src # NULL
  /\ ~audio.paused
  /\ IsFinite(audio.duration)
  /\ Step("onTrackEnded", 0, 0, 0,
          onTrackEnded([State EXCEPT !.audio.currentTime = audio.duration]))

Next ==
  \/ FilesSelected
  \/ FilesReady
  \/ PlayTrack
  \/ TogglePlayback
  \/ PreviousTrack
  \/ NextTrack
  \/ RemoveTrack
  \/ QueueDrop
  \/ SeekTo
  \/ PlayResolved
  \/ PlayRejected
  \/ LoadedMetadata
  \/ TimeUpdate
  \/ TrackEnded

Spec == Init /\ [][Next]_vars

\* ------------------------------------------------------------------ seeking
\* The controller with one file-add of two files, selections, the handle's
\* metadata and progress, and seeks to every value of SeekValues.

SeekNext ==
  \/ FilesSelectedFrom({<<"a.mp3", "b.mp3">>}, MaxTracks)
  \/ FilesReady
  \/ PlayTrack
  \/ LoadedMetadata
  \/ TimeUpdate
  \/ SeekToFrom(SeekValues)

SeekSpec == Init /\ [][SeekNext]_vars

\* ------------------------------------------------------------------ transport
\* The controller with file-adds, selections, Next, Previous, play and pause, and
\* the handle's answers, progress and end of track.

TransportNext ==
  \/ FilesSelectedFrom({<<"a.mp3">>, <<"b.mp3", "c.mp3">>}, MaxTracks)
  \/ FilesReady
  \/ PlayTrack
  \/ TogglePlayback
  \/ PreviousTrack
  \/ NextTrack
  \/ PlayResolved
  \/ PlayRejected
  \/ LoadedMetadata
  \/ TimeUpdate
  \/ TrackEnded

TransportSpec == Init /\ [][TransportNext]_vars

\* ------------------------------------------------------------------ lifecycle
\* The controller with file-adds, selections, removals and teardown. After
\* teardown the user does nothing more; a file-add suspended at its await and a
\* play request that is not settled still run to their end.

Destroy ==
  /\ ~destroyed
  /\ Step("ngOnDestroy", 0, 0, 0, ngOnDestroy(State))

LifecycleNext ==
  \/ ~destroyed /\ FilesSelected
  \/ FilesReady
  \/ ~destroyed /\ PlayTrack
  \/ ~destroyed /\ RemoveTrack
  \/ PlayResolved
  \/ PlayRejected
  \/ Destroy

LifecycleSpec == Init /\ [][LifecycleNext]_vars

\* ------------------------------------------------------------------ queue
\* The controller with the operations that change the sequence or the cursor:
\* file-adds, selections, Next, Previous, removals and reorders. The handle's
\* answers to play requests, which write neither of them, are left to Spec.

QueueNext ==
  \/ FilesSelectedFrom({<<"a.mp3">>, <<"b.mp3", "c.mp3">>, <<"notes.txt", "b.mp3">>}, MaxTracks)
  \/ FilesReady
  \/ PlayTrack
  \/ PreviousTrack
  \/ NextTrack
  \/ RemoveTrack
  \/ QueueDrop

QueueSpec == Init /\ [][QueueNext]_vars

\* ------------------------------------------------------------------ reorder
\* The controller with file-adds, selections, reorders, and the handle's
\* confirmations, metadata and progress: a reorder may come while a track plays at some time.

ReorderNext ==
  \/ FilesSelectedFrom({<<"a.mp3", "b.mp3">>, <<"c.mp3">>}, MaxTracks)
  \/ FilesReady
  \/ PlayTrack
  \/ QueueDrop
  \/ PlayResolved
  \/ LoadedMetadata
  \/ TimeUpdate

ReorderSpec == Init /\ [][ReorderNext]_vars

\* ------------------------------------------------------------------ file-adds
\* The controller with file-adds of one and of two files, one after the other or
\* suspended together, toggles, and the handle's confirmations, metadata and
\* progress: a batch may complete while an earlier track plays at some time.

FileAddNext ==
  \/ FilesSelectedFrom({<<"a.mp3">>, <<"b.mp3">>, <<"b.mp3", "a.mp3">>,
                        <<"notes.txt", "c.mp3">>}, MaxTracks)
  \/ FilesReady
  \/ TogglePlayback
  \/ PlayResolved
  \/ LoadedMetadata
  \/ TimeUpdate

FileAddSpec == Init /\ [][FileAddNext]_vars

\* ------------------------------------------------------------------ loading
\* The controller with one file-add of two files, selections, removals, the
\* handle's answers and metadata. The handle answers every play request in the
\* end, with success or with failure; nothing else is bound to happen: the user
\* may stop acting and a load may never deliver its metadata.

PlayAnswered == PlayResolved \/ PlayRejected

LoadingNext ==
  \/ FilesSelectedFrom({<<"a.mp3", "b.mp3">>}, MaxTracks)
  \/ FilesReady
  \/ PlayTrack
  \/ RemoveTrack
  \/ PlayAnswered
  \/ LoadedMetadata

LoadingSpec == Init /\ [][LoadingNext]_vars /\ WF_vars(PlayAnswered)

\* ------------------------------------------------------------------ cursor
\* The controller with the operations that set, move or clear the cursor or that
\* look at it: file-adds, selections, toggles, Next, removals and reorders.

CursorNext ==
  \/ FilesSelectedFrom({<<"a.mp3">>, <<"b.mp3", "c.mp3">>, <<"notes.txt", "b.mp3">>}, MaxTracks)
  \/ FilesReady
  \/ PlayTrack
  \/ TogglePlayback
  \/ NextTrack
  \/ RemoveTrack
  \/ QueueDrop

CursorSpec == Init /\ [][CursorNext]_vars

\* ------------------------------------------------------------------ removal
\* The controller with one file-add of three files, selections, removals and the
\* handle's answers: a current track in the middle of the queue has both a
\* successor and a predecessor.

RemovalNext ==
  \/ FilesSelectedFrom({<<"a.mp3", "b.mp3", "c.mp3">>}, MaxRemovalTracks)
  \/ FilesReady
  \/ PlayTrack
  \/ RemoveTrack
  \/ PlayResolved
  \/ PlayRejected
  \/ LoadedMetadata

RemovalSpec == Init /\ [][RemovalNext]_vars

\* ------------------------------------------------------------------ extraction alone
\* extractArtworkUrl applied to one file out of Id3Files: tags of versions 2, 3
\* and 4, with and without the footer and extended-header flags, declaring the
\* size of their body, the size of the payload of its picture frame or no size,
\* around bodies with a well-formed picture frame and bodies that are not.

\* the four bytes of a size below 2^28, seven bits each
Synchsafe(n) ==
  <<(n \div 2097152) % 128, (n \div 16384) % 128, (n \div 128) % 128, n % 128>>

FrameOfSize(id, size, data) == id \o <<0, 0, 0, size>> \o <<0, 0>> \o data

Frame(id, data) == FrameOfSize(id, Len(data), data)

ApicData(encoding, mime, pictureType, description, image) ==
  <<encoding>> \o mime \o <<0>> \o <<pictureType>> \o description \o image

Images == {<<137, 80, 78, 71>>, <<1, 0, 2, 0>>}
PictureTypes == {0, 3}
TitleId == <<84, 73, 84, 50>>

\* one well-formed picture frame: encoding 0, image/png, an empty description
PngBodies ==
  {Frame(ApicId, ApicData(0, ImagePng, t, <<0>>, img)) : t \in PictureTypes, img \in Images}

OtherBodies ==
  LET img == <<137, 80, 78, 71>>
      png == Frame(ApicId, ApicData(0, ImagePng, 3, <<0>>, img))
  IN {Frame(TitleId, <<0, 72, 105>>) \o png,
      Frame(ApicId, ApicData(0, <<>>, 3, <<0>>, img)),
      Frame(ApicId, ApicData(0, <<32, 73, 77, 65, 71, 69, 47, 80, 78, 71>>, 3, <<0>>, img)),
      Frame(ApicId, ApicData(1, ImagePng, 3, <<0, 0>>, img)),
      Frame(ApicId, ApicData(0, ImagePng, 3, <<100, 0>>, img)),
      Frame(ApicId, ApicData(0, ImagePng, 3, <<0>>, <<>>)),
      Frame(ApicId, <<0>> \o ImagePng),
      Frame(<<97, 112, 105, 99>>, ApicData(0, ImagePng, 3, <<0>>, img)),
      FrameOfSize(ApicId, 0, <<>>) \o png,
      <<0, 0, 0, 0, 0, 0, 0, 0, 0, 0>> \o png,
      <<0, 0, 0, 6, 0, 0, 0, 0, 0, 0>> \o png}

Bodies == PngBodies \cup OtherBodies

TagFile(version, flags, size, body) ==
  Id3Marker \o <<version, 0, flags>> \o Synchsafe(size) \o body

TagVersions == {2, 3, 4}
TagFlags == {0, 16, 64}
DeclaredSizes(body) == {0, 17, Len(body), 200}

Id3Files ==
  UNION {{TagFile(v, f, n, b) : v \in TagVersions, f \in TagFlags, n \in DeclaredSizes(b)} :
         b \in Bodies}
  \cup {<<>>, Id3Marker, <<73, 68, 52, 3, 0, 0, 0, 0, 0, 27>>}

Id3Init ==
  /\ playlist = EmptyList
  /\ last = NoOp
  /\ CtlInit
  /\ file \in Id3Files
  /\ artwork = Pending

ExtractArtwork ==
  /\ artwork = Pending
  /\ artwork' = extractArtworkUrl(file)
  /\ last' = [op |-> "extractArtworkUrl", a |-> Len(file), b |-> 0, ret |-> NULL]
  /\ UNCHANGED <<playlist, ctlVars, file>>

Id3Spec == Id3Init /\ [][ExtractArtwork]_vars

\* ------------------------------------------------------------------ picture frames alone
\* parseApicFrame applied to the data of one picture frame: every text encoding,
\* with and without a MIME type and a description, the MIME type ended by one
\* null byte or by as many as the encoding's terminator has.

TextEncodings == {0, 1, 2, 3}
MimeTypes == {<<>>, ImagePng, <<73, 77, 65, 71, 69, 47, 80, 78, 71>>}
Payloads == {<<>>, <<137, 80, 78, 71>>}

\* the terminator of a string in an encoding: one null byte, or two
Terminator(encoding) == IF encoding \in {0, 3} THEN <<0>> ELSE <<0, 0>>

\* no text, and the letter d, in an encoding
Descriptions(encoding) ==
  IF encoding \in {0, 3} THEN {<<>>, <<100>>} ELSE {<<>>, <<100, 0>>}

PictureFrame(encoding, mime, mimeEnd, pictureType, description, image) ==
  <<encoding>> \o mime \o mimeEnd \o <<pictureType>>
    \o description \o Terminator(encoding) \o image

ApicFrames ==
  UNION {{PictureFrame(e, m, z, t, d, img) :
            m \in MimeTypes, z \in {<<0>>, Terminator(e)}, t \in PictureTypes,
            d \in Descriptions(e), img \in Payloads} : e \in TextEncodings}

ApicInit ==
  /\ playlist = EmptyList
  /\ last = NoOp
  /\ CtlInit
  /\ file \in ApicFrames
  /\ artwork = Pending

ParseApicFrame ==
  /\ artwork = Pending
  /\ artwork' = parseApicFrame(file)
  /\ last' = [op |-> "parseApicFrame", a |-> Len(file), b |-> 0, ret |-> NULL]
  /\ UNCHANGED <<playlist, ctlVars, file>>

ApicSpec == ApicInit /\ [][ParseApicFrame]_vars

\* ------------------------------------------------------------------ synchsafe sizes alone
\* The two decoders applied to four bytes, each of them with and without its
\* high bit.

ByteSamples == {0, 1, 127, 128, 129, 255}

SynchsafeInit ==
  /\ playlist = EmptyList
  /\ last = NoOp
  /\ CtlInit
  /\ file \in {<<b0, b1, b2, b3>> : b0 \in ByteSamples, b1 \in ByteSamples,
                                    b2 \in ByteSamples, b3 \in ByteSamples}
  /\ artwork = NoArtwork

ReadSynchsafeInteger ==
  /\ last' = [op |-> "readSynchsafeInteger", a |-> 0, b |-> 0,
              ret |-> readSynchsafeInteger(file, 0)]
  /\ UNCHANGED <<playlist, ctlVars, id3Vars>>

ReadSynchsafeFromView ==
  /\ last' = [op |-> "readSynchsafeFromView", a |-> 0, b |-> 0,
              ret |-> readSynchsafeFromView(file, 0)]
  /\ UNCHANGED <<playlist, ctlVars, id3Vars>>

SynchsafeNext ==
  \/ ReadSynchsafeInteger
  \/ ReadSynchsafeFromView

SynchsafeSpec == SynchsafeInit /\ [][SynchsafeNext]_vars

\* ------------------------------------------------------------------ the list alone

\* Indices a caller may pass: in range, just out of range, and far out of range.
FarIndex == 99
ListIndices == (-1..(MaxListNodes + 1)) \cup {FarIndex}

\* The value inserted k-th is k: values are distinct, so that an array of values
\* tells every order apart.
NextValue(L) == L.alloc + 1

ListInit ==
  /\ playlist = EmptyList
  /\ last = NoOp
  /\ CtlInit
  /\ file = <<>>
  /\ artwork = NoArtwork

LInsertAtStart ==
  /\ playlist.alloc < MaxListNodes
  /\ LET r == insertAtStart(playlist, NextValue(playlist)) IN
     /\ playlist' = r.list
     /\ last' = [op |-> "insertAtStart", a |-> 0, b |-> 0, ret |-> r.node]

LInsertAtEnd ==
  /\ playlist.alloc < MaxListNodes
  /\ LET r == insertAtEnd(playlist, NextValue(playlist)) IN
     /\ playlist' = r.list
     /\ last' = [op |-> "insertAtEnd", a |-> 0, b |-> 0, ret |-> r.node]

LInsertAt ==
  /\ playlist.alloc < MaxListNodes
  /\ \E i \in ListIndices :
       LET r == insertAt(playlist, NextValue(playlist), i) IN
       /\ playlist' = r.list
       /\ last' = [op |-> "insertAt", a |-> i, b |-> 0, ret |-> r.node]

LRemoveAt ==
  \E i \in ListIndices :
    LET r == removeAt(playlist, i) IN
    /\ playlist' = r.list
    /\ last' = [op |-> "removeAt", a |-> i, b |-> 0, ret |-> r.node]

LMoveNode ==
  \E from \in ListIndices, to \in ListIndices :
    LET r == moveNode(playlist, from, to) IN
    /\ playlist' = r.list
    /\ last' = [op |-> "moveNode", a |-> from, b |-> to, ret |-> r.node]

LGetNodeAt ==
  \E i \in ListIndices :
    /\ playlist' = playlist
    /\ last' = [op |-> "getNodeAt", a |-> i, b |-> 0, ret |-> getNodeAt(playlist, i)]

ListNext ==
  \/ LInsertAtStart /\ UNCHANGED <<ctlVars, id3Vars>>
  \/ LInsertAtEnd /\ UNCHANGED <<ctlVars, id3Vars>>
  \/ LInsertAt /\ UNCHANGED <<ctlVars, id3Vars>>
  \/ LRemoveAt /\ UNCHANGED <<ctlVars, id3Vars>>
  \/ LMoveNode /\ UNCHANGED <<ctlVars, id3Vars>>
  \/ LGetNodeAt /\ UNCHANGED <<ctlVars, id3Vars>>

ListSpec == ListInit /\ [][ListNext]_vars

\* ------------------------------------------------------------------ the list with kept nodes
\* A caller keeps the nodes the list handed out and may pass any of them to
\* removeNode, in the list or not.

LRemoveNode ==
  \E node \in 1..playlist.alloc :
    LET r == removeNode(playlist, node) IN
    /\ playlist' = r.list
    /\ last' = [op |-> "removeNode", a |-> node, b |-> 0, ret |-> r.node]

KeptNodeNext ==
  \/ LInsertAtStart /\ UNCHANGED <<ctlVars, id3Vars>>
  \/ LInsertAtEnd /\ UNCHANGED <<ctlVars, id3Vars>>
  \/ LRemoveAt /\ UNCHANGED <<ctlVars, id3Vars>>
  \/ LRemoveNode /\ UNCHANGED <<ctlVars, id3Vars>>

KeptNodeSpec == ListInit /\ [][KeptNodeNext]_vars

\* ------------------------------------------------------------------ claims: the list

Reversed(s) == [k \in 1..Len(s) |-> s[Len(s) + 1 - k]]
ValuesOf(L, ns) == [k \in 1..Len(ns) |-> L.value[ns[k]]]

\* C1: after any sequence of insertAtStart, insertAtEnd, insertAt, removeAt and
\* moveNode calls on an initially empty list, size is the number of nodes reached
\* from head by next, head.prev and tail.next are null (head and tail both null
\* when size is 0), and following prev from tail visits the same nodes in the
\* reverse order.
C1_StructuralIntegrity ==
  LET f == nodesForward(playlist)
      b == nodesBackward(playlist)
  IN /\ playlist.length = Len(f)
     /\ (playlist.length = 0 => playlist.head = NULL /\ playlist.tail = NULL)
     /\ (playlist.length > 0 => playlist.head # NULL /\ playlist.tail # NULL)
     /\ (playlist.head # NULL => playlist.prev[playlist.head] = NULL)
     /\ (playlist.tail # NULL => playlist.next[playlist.tail] = NULL)
     /\ b = Reversed(f)

\* C1's case: a move between two different positions of a list of three nodes,
\* after at least one removal (the moved node is not the last one created).
C1_Witness ==
  /\ last.op = "moveNode"
  /\ last.ret # NULL
  /\ last.a # last.b
  /\ playlist.length >= 3
  /\ playlist.alloc > playlist.length

\* C4: for a list of size n, 0 <= from < n and any integer to # from,
\* moveNode(from, to) returns the node that was at from, leaves size n, and yields
\* the sequence with that element removed and reinserted at index
\* min(max(to, 0), n - 1), the others keeping their relative order.
C4_MoveNodeClamps ==
  [][(/\ last'.op = "moveNode"
      /\ last'.a >= 0 /\ last'.a < playlist.length
      /\ last'.a # last'.b)
     => LET n == playlist.length
            before == nodesForward(playlist)
            moved == before[last'.a + 1]
            t == MinOf(MaxOf(last'.b, 0), n - 1)
            expected == SeqWith(SeqWithout(before, last'.a + 1), t + 1, moved)
        IN /\ last'.ret = moved
           /\ playlist'.length = n
           /\ nodesForward(playlist') = expected
           /\ toArray(playlist') = ValuesOf(playlist, expected)]_vars

\* C4's case: [A, B, C] (the values 1, 2, 3) after moveNode(0, 99) is [B, C, A].
C4_Witness ==
  /\ last.op = "moveNode"
  /\ last.a = 0
  /\ last.b = FarIndex
  /\ toArray(playlist) = <<2, 3, 1>>

\* C5: for every index i with 0 <= i < size, getNodeAt(i).value is toArray()[i],
\* whichever end the walk starts from; getNodeAt(i) is empty for i < 0 and
\* i >= size.
C5_GetNodeAtMatchesToArray ==
  LET arr == toArray(playlist) IN
  \A i \in ListIndices :
    LET n == getNodeAt(playlist, i) IN
    IF i >= 0 /\ i < playlist.length
    THEN n # NULL /\ playlist.value[n] = arr[i + 1]
    ELSE n = NULL

\* C5's case: getNodeAt started from the tail (index > size / 2) in a list that
\* was reordered, so that its order is not the order of creation.
C5_Witness ==
  /\ last.op = "getNodeAt"
  /\ 2 * last.a > playlist.length
  /\ last.ret # NULL
  /\ last.ret # last.a + 1
  /\ playlist.value[last.ret] = toArray(playlist)[last.a + 1]

\* ------------------------------------------------------------------ claims: the controller

LiveNodes == {nodesForward(playlist)[i] : i \in 1..Len(nodesForward(playlist))}

\* C2: in every reachable state the cursor is empty or a node that is in the
\* sequence, and isPlaying implies that the cursor is not empty.
C2_CursorLiveAndPlayingHasCursor ==
  /\ (currentNode = NULL \/ currentNode \in LiveNodes)
  /\ (isPlaying => currentNode # NULL)

\* C3: a play confirmation (success or failure) requested for a selection that a
\* different selection has superseded never changes isPlaying or isLoadingTrack
\* of the newer selection.
C3_StaleConfirmationIgnored ==
  [][(/\ last'.op \in {"playResolved", "playRejected"}
      /\ currentNode # NULL
      /\ currentNode \in LiveNodes
      /\ last'.a # currentNode)
     => (isPlaying' = isPlaying /\ isLoadingTrack' = isLoadingTrack)]_vars

\* C6: removeTrack(i) of the current node stops playback; the cursor becomes the
\* removed node's successor if it had one, else its predecessor if it had one,
\* else the controller is idle: no cursor, currentTrackIndex -1, not playing,
\* duration 0, currentTime 0, no source.
C6_RemoveCurrentSelectsNeighbour ==
  [][(/\ last'.op = "removeTrack"
      /\ currentNode # NULL
      /\ getNodeAt(playlist, last'.a) = currentNode)
     => LET nx == playlist.next[currentNode]
            pv == playlist.prev[currentNode]
        IN /\ isPlaying' = FALSE
           /\ (~isPlaying => audio'.paused)
           /\ currentNode \notin {nodesForward(playlist')[i] :
                                    i \in 1..Len(nodesForward(playlist'))}
           /\ IF nx # NULL THEN currentNode' = nx
              ELSE IF pv # NULL THEN currentNode' = pv
              ELSE /\ currentNode' = NULL
                   /\ currentTrackIndex' = -1
                   /\ duration' = 0
                   /\ currentTime' = 0
                   /\ audio'.src = NULL
                   /\ audio'.paused]_vars

\* C6's case: the current node, the second of three, was removed while playing;
\* its successor, and not its predecessor, is the cursor now.
C6_Witness ==
  /\ last.op = "removeTrack"
  /\ last.b = 1
  /\ last.a = 1
  /\ playlist.length = 2
  /\ currentNode = playlist.tail
  /\ playlist.prev[currentNode] # NULL
  /\ currentNode \in pendingPlay

\* C7: Next, and the end of a track: with a successor the cursor moves to it and
\* play is requested; at the tail the cursor stays, the handle is paused,
\* isPlaying is false and the time is 0; without a cursor nothing changes.
C7_NextAdvancesOrParks ==
  [][(last'.op \in {"nextTrack", "onTrackEnded"})
     => IF currentNode = NULL
        THEN currentNode' = NULL
             /\ (last'.op = "nextTrack" => UNCHANGED <<playlist, ctlVars>>)
        ELSE IF playlist.next[currentNode] # NULL
        THEN /\ currentNode' = playlist.next[currentNode]
             /\ currentNode' \in pendingPlay'
             /\ ~audio'.paused
             /\ audio'.src = playlist.value[currentNode']
        ELSE /\ currentNode' = currentNode
             /\ audio'.paused
             /\ isPlaying' = FALSE
             /\ currentTime' = 0
             /\ audio'.currentTime = 0]_vars

\* C7's case: the last of two tracks ended, and the controller is parked on it.
C7_Witness ==
  /\ last.op = "onTrackEnded"
  /\ playlist.length = 2
  /\ currentNode = playlist.tail
  /\ audio.paused
  /\ ~isPlaying
  /\ currentTime = 0

\* C8: Previous with a cursor: more than 5 seconds elapsed, the time is set to 0
\* and the cursor stays; at most 5 seconds and a predecessor, the cursor moves to
\* it and play is requested; at most 5 seconds at the head, nothing changes.
C8_PreviousRestartsOrRetreats ==
  [][(last'.op = "previousTrack" /\ currentNode # NULL)
     => IF audio.currentTime > 5
        THEN /\ currentNode' = currentNode
             /\ currentTime' = 0
             /\ audio'.currentTime = 0
        ELSE IF playlist.prev[currentNode] # NULL
        THEN /\ currentNode' = playlist.prev[currentNode]
             /\ currentNode' \in pendingPlay'
             /\ ~audio'.paused
        ELSE UNCHANGED <<playlist, ctlVars>>]_vars

\* C8's case: Previous on the second of two tracks, after more than 5 seconds,
\* restarted it: the cursor is still the second track, at time 0, playing.
C8_Witness ==
  /\ last.op = "previousTrack"
  /\ playlist.length = 2
  /\ currentNode = playlist.tail
  /\ isPlaying
  /\ ~audio.paused
  /\ currentTime = 0
  /\ audio.currentTime = 0

\* C9: for every finite v, seekTo(v) assigns the handle a time t with
\* 0 <= t <= effectiveDuration, where effectiveDuration is the handle's duration
\* when it is finite and positive and max(last known duration, v) otherwise.
C9_SeekWithinBounds ==
  (last.op = "seekTo" /\ IsFinite(last.a))
  => LET effectiveDuration == IF IsFinite(audio.duration) /\ audio.duration > 0
                              THEN audio.duration
                              ELSE MaxOf(duration, last.a)
     IN 0 <= last.ret /\ last.ret <= effectiveDuration

\* ------------------------------------------------------------------ claims: embedded artwork

\* The file of C10: the marker, version 3, flags 0, the synchsafe bytes of
\* declaredSize, and one picture frame: encoding 0, image/png and a null byte,
\* one picture-type byte, a null byte for the empty description, 4 image bytes.
IsPictureFile(f, declaredSize) ==
  /\ Len(f) = 37
  /\ SubSeq(f, 1, 3) = Id3Marker
  /\ f[4] = 3
  /\ f[6] = 0
  /\ SubSeq(f, 7, 10) = Synchsafe(declaredSize)
  /\ SubSeq(f, 11, 14) = ApicId
  /\ SubSeq(f, 15, 18) = <<0, 0, 0, 17>>
  /\ f[21] = 0
  /\ SubSeq(f, 22, 30) = ImagePng
  /\ f[31] = 0
  /\ f[33] = 0

\* C10, as the specification states it: extraction on the file whose size bytes
\* encode 17 returns an image of type image/png with exactly the 4 image bytes.
C10_PictureFrameDeclared17 ==
  (artwork # Pending /\ IsPictureFile(file, 17))
  => artwork = [kind |-> "image", type |-> ImagePng, bytes |-> SubSeq(file, 34, 37)]

\* C10, amended: extraction on the file whose size bytes encode 27, the 10 bytes
\* of the frame header and the 17 bytes of the frame's payload, returns an image
\* of type image/png with exactly the 4 image bytes.
C10_PictureFrameDeclared27 ==
  (artwork # Pending /\ IsPictureFile(file, 27))
  => artwork = [kind |-> "image", type |-> ImagePng, bytes |-> SubSeq(file, 34, 37)]

\* C10's case: the picture of the file that declares 27 bytes was extracted.
C10_Witness ==
  /\ last.op = "extractArtworkUrl"
  /\ IsPictureFile(file, 27)
  /\ artwork = [kind |-> "image", type |-> ImagePng, bytes |-> <<1, 0, 2, 0>>]

\* where the loop over the frames of the file starts and ends
FileWalk ==
  walkTrace(tagBody(file), file[4], extendedHeaderSkip(tagBody(file), file[4], file[6]))

\* C11: the loop over the frames reads no byte outside the tag (after the footer
\* is trimmed), and a frame whose data would end after the tag ends the loop:
\* extraction returns empty, no earlier picture frame having given an image.
C11_WalkStaysInTag ==
  (artwork # Pending /\ tagBody(file) # <<>>)
  => /\ FileWalk.reads \subseteq 0..(Len(tagBody(file)) - 1)
     /\ (FileWalk.end = "overrun" => artwork = NoArtwork)
     /\ (FileWalk.end = "image" <=> artwork # NoArtwork)

\* C11's case: a tag cut inside its well-formed picture frame gave no artwork.
C11_Witness ==
  /\ last.op = "extractArtworkUrl"
  /\ IsPictureFile(file, 17)
  /\ FileWalk.end = "overrun"
  /\ FileWalk.reads = 0..7
  /\ artwork = NoArtwork

\* ------------------------------------------------------------------ claims: file-adds

\* C12: after any sequence of file-adds, a batch with the same file twice
\* included, no two tracks of the sequence have files of the same name and size.
C12_NoDuplicateFiles ==
  \A i \in 1..Len(toArray(playlist)), j \in 1..Len(toArray(playlist)) :
    i # j => trackFile[toArray(playlist)[i]] # trackFile[toArray(playlist)[j]]

\* ------------------------------------------------------------------ claims: resources

\* C13: the resources of a track are released exactly once, when the track is
\* removed or at teardown: never twice, not while the track is in the sequence
\* before teardown, and after teardown no created resource is unreleased, those
\* of a file-add that was suspended when teardown ran included.
C13_ReleasedExactlyOnce ==
  /\ \A t \in Nodes : released[t] <= 1
  /\ \A t \in 1..playlist.alloc :
       ~destroyed => (released[t] = 0 <=> \E i \in 1..Len(toArray(playlist)) :
                                            toArray(playlist)[i] = t)
  /\ destroyed => /\ batches = <<>>
                  /\ \A t \in 1..playlist.alloc : released[t] = 1

\* ------------------------------------------------------------------ claims: the list, continued

\* C14: for a list of size n and any integer i, insertAt(v, i) returns the new
\* node, makes the size n + 1 and yields the previous sequence with v at index
\* min(max(i, 0), n), the previous elements in their previous order: the list of
\* insertAtStart(v) for i <= 0 and the list of insertAtEnd(v) for i >= n.
C14_InsertAtClamps ==
  [][(last'.op = "insertAt")
     => LET n == playlist.length
            i == last'.a
            before == nodesForward(playlist)
            node == last'.ret
            t == MinOf(MaxOf(i, 0), n)
        IN /\ node # NULL
           /\ \A k \in 1..n : before[k] # node
           /\ playlist'.value[node] = NextValue(playlist)
           /\ playlist'.length = n + 1
           /\ nodesForward(playlist') = SeqWith(before, t + 1, node)
           /\ toArray(playlist') = SeqWith(toArray(playlist), t + 1, NextValue(playlist))
           /\ (i <= 0 => playlist' = insertAtStart(playlist, NextValue(playlist)).list)
           /\ (i >= n => playlist' = insertAtEnd(playlist, NextValue(playlist)).list)]_vars

\* C14's case: a node inserted inside a list, right before the element that was
\* at its index.
C14_Witness ==
  /\ last.op = "insertAt"
  /\ last.a > 0
  /\ last.a < playlist.length - 1
  /\ playlist.length >= 3
  /\ nodesForward(playlist)[last.a + 1] = last.ret

\* C15: removeAt(i) with i in range (removeNode of the node at i) leaves the
\* removed node with prev and next null, no node of the list, nor head or tail,
\* linking to it, the size one less and the other values in their previous
\* order; removeAt(i) with i out of range returns empty and changes nothing.
C15_RemoveSevers ==
  [][(last'.op = "removeAt")
     => LET n == playlist.length
            i == last'.a
            before == nodesForward(playlist)
        IN IF 0 <= i /\ i < n
           THEN LET node == before[i + 1]
                    after == nodesForward(playlist')
                IN /\ last'.ret = node
                   /\ playlist'.prev[node] = NULL
                   /\ playlist'.next[node] = NULL
                   /\ playlist'.head # node
                   /\ playlist'.tail # node
                   /\ \A m \in Nodes \ {node} :
                        playlist'.next[m] # node /\ playlist'.prev[m] # node
                   /\ playlist'.length = n - 1
                   /\ after = SeqWithout(before, i + 1)
                   /\ nodesBackward(playlist') = Reversed(after)
                   /\ toArray(playlist') = SeqWithout(toArray(playlist), i + 1)
           ELSE last'.ret = NULL /\ playlist' = playlist]_vars

\* C15's case: the middle node of a list of three was removed; it is isolated
\* and its two neighbours link to each other.
C15_Witness ==
  /\ last.op = "removeAt"
  /\ last.a = 1
  /\ last.ret # NULL
  /\ playlist.length = 2
  /\ playlist.next[last.ret] = NULL
  /\ playlist.prev[last.ret] = NULL
  /\ playlist.next[playlist.head] = playlist.tail
  /\ playlist.prev[playlist.tail] = playlist.head

\* C16: for 0 <= i < size, moveNode(i, i) leaves head, tail, size and every link
\* unchanged and returns the node that is at index i.
C16_MoveToSameIndex ==
  [][(/\ last'.op = "moveNode"
      /\ last'.a = last'.b
      /\ 0 <= last'.a /\ last'.a < playlist.length)
     => /\ playlist' = playlist
        /\ last'.ret = nodesForward(playlist)[last'.a + 1]]_vars

\* C16's case: moveNode(1, 1) on a list of three returned the middle node.
C16_Witness ==
  /\ last.op = "moveNode"
  /\ last.a = 1
  /\ last.b = 1
  /\ playlist.length = 3
  /\ last.ret = nodesForward(playlist)[2]

\* ------------------------------------------------------------------ claims: embedded artwork, continued

\* the tag size that the header of the file declares
DeclaredTagSize(f) == readSynchsafeInteger(slice(f, 0, 10), 6)

\* C17: extraction yields no artwork whenever the file has fewer than 10 header
\* bytes, a marker other than the ID3 marker, a major version below 3, a
\* declared tag size of zero, or fewer body bytes than the declared tag size.
C17_HeaderAnomalyGivesNoArtwork ==
  (/\ artwork # Pending
   /\ \/ Len(file) < 10
      \/ SubSeq(file, 1, 3) # Id3Marker
      \/ file[4] < 3
      \/ DeclaredTagSize(file) = 0
      \/ Len(file) - 10 < DeclaredTagSize(file))
  => artwork = NoArtwork

\* ------------------------------------------------------------------ claims: the controller, continued

\* C18: seekTo with NaN, +Infinity or -Infinity leaves the handle's current time,
\* the displayed currentTime and every other field of the controller unchanged.
C18_NonFiniteSeekIgnored ==
  [][(last'.op = "seekTo" /\ ~IsFinite(last'.a))
     => UNCHANGED <<playlist, ctlVars>>]_vars

\* C18's case: a seek to +Infinity while a track with a known duration is at a
\* time after its start.
C18_Witness ==
  /\ last.op = "seekTo"
  /\ last.a = PosInf
  /\ currentNode # NULL
  /\ IsFinite(audio.duration)
  /\ audio.currentTime > 0
  /\ currentTime = audio.currentTime

\* C19: initially and after every completed operation of the controller, the
\* tracks snapshot is the sequence's toArray() and currentTrackIndex is
\* indexOfNode(cursor): the cursor's position, and -1 without a cursor.
C19_SnapshotAndIndexDerived ==
  /\ tracks = toArray(playlist)
  /\ currentTrackIndex = indexOfNode(playlist, currentNode)
  /\ (currentNode = NULL => currentTrackIndex = -1)
  /\ (currentNode # NULL =>
        /\ 0 <= currentTrackIndex /\ currentTrackIndex < playlist.length
        /\ nodesForward(playlist)[currentTrackIndex + 1] = currentNode)

\* C19's case: the track before the cursor was removed, and the cursor, still
\* the same node, is displayed at index 0.
C19_Witness ==
  /\ last.op = "removeTrack"
  /\ last.a = 0
  /\ last.b = 0
  /\ last.ret # NULL
  /\ currentNode # NULL
  /\ currentTrackIndex = 0
  /\ tracks = <<playlist.value[currentNode]>>

\* C20: a reorder (from, to) with from in range and from # to leaves the cursor
\* on the same node and isPlaying, isLoadingTrack, currentTime, duration and the
\* playback source unchanged; afterwards currentTrackIndex is the position of
\* the cursor's node, also when another node was moved across it; a reorder
\* with from = to changes nothing.
C20_ReorderKeepsCursor ==
  [][(last'.op = "onQueueDrop")
     => IF last'.a = last'.b THEN UNCHANGED <<playlist, ctlVars>>
        ELSE (0 <= last'.a /\ last'.a < playlist.length)
             => /\ currentNode' = currentNode
                /\ isPlaying' = isPlaying
                /\ isLoadingTrack' = isLoadingTrack
                /\ currentTime' = currentTime
                /\ duration' = duration
                /\ audio' = audio
                /\ pendingPlay' = pendingPlay
                /\ currentTrackIndex' = indexOfNode(playlist', currentNode)
                /\ tracks' = toArray(playlist')]_vars

\* C20's case: while the second of two tracks plays, the first one is dragged
\* behind it: the cursor's node is displayed at index 0 now.
C20_Witness ==
  /\ last.op = "onQueueDrop"
  /\ last.a = 0
  /\ last.b = 1
  /\ playlist.length = 2
  /\ currentNode = playlist.head
  /\ playlist.value[currentNode] = 2
  /\ currentTrackIndex = 0
  /\ isPlaying
  /\ currentTime > 0

\* togglePlayback run on the present state with its cursor taken away (a state no
\* run of the controller leaves when the sequence is not empty): the head is
\* selected as a new node and play is requested.
ToggleWithoutCursorSelectsHead ==
  LET S == [State EXCEPT !.currentNode = NULL, !.currentTrackIndex = -1]
      T == togglePlayback(S)
  IN playlist.length > 0
     => /\ T.currentNode = playlist.head
        /\ T.currentTrackIndex = 0
        /\ T.isLoadingTrack
        /\ T.audio.src = playlist.value[playlist.head]
        /\ ~T.audio.paused
        /\ T.pendingPlay = pendingPlay \cup {playlist.head}
        /\ T.playlist = playlist

\* C21: togglePlayback with an empty sequence changes nothing; with no cursor it
\* selects the head and requests play; with a cursor and the handle paused it
\* requests play and changes nothing else; with a cursor and the handle not
\* paused it pauses the handle and clears isPlaying at once. The confirmation of
\* a play request sets isPlaying (TRUE on success, FALSE on failure), clears
\* isLoadingTrack, and leaves the cursor and the sequence alone.
C21_Toggle ==
  [][/\ ToggleWithoutCursorSelectsHead
     /\ (last'.op = "togglePlayback")
        => IF playlist.length = 0 THEN UNCHANGED <<playlist, ctlVars>>
           ELSE IF currentNode = NULL
           THEN /\ currentNode' = playlist.head
                /\ playlist' = playlist
                /\ audio'.src = playlist.value[playlist.head]
                /\ ~audio'.paused
                /\ pendingPlay' = pendingPlay \cup {playlist.head}
           ELSE IF audio.paused
           THEN /\ ~audio'.paused
                /\ pendingPlay' = pendingPlay \cup {currentNode}
                /\ audio'.src = audio.src
                /\ UNCHANGED <<playlist, currentNode, tracks, currentTrackIndex,
                               isPlaying, isLoadingTrack, currentTime, duration>>
           ELSE /\ audio'.paused
                /\ ~isPlaying'
                /\ pendingPlay' = pendingPlay
                /\ audio'.src = audio.src
                /\ UNCHANGED <<playlist, currentNode, tracks, currentTrackIndex,
                               isLoadingTrack, currentTime, duration>>
     /\ (last'.op = "playResolved")
        => /\ isPlaying'
           /\ ~isLoadingTrack'
           /\ UNCHANGED <<playlist, currentNode, tracks, currentTrackIndex>>
     /\ (last'.op = "playRejected")
        => /\ ~isPlaying'
           /\ ~isLoadingTrack'
           /\ UNCHANGED <<playlist, currentNode, tracks, currentTrackIndex>>]_vars

\* C21's case: a track that was playing at some time has just been paused by a
\* toggle.
C21_Witness ==
  /\ last.op = "togglePlayback"
  /\ currentNode # NULL
  /\ audio.paused
  /\ ~isPlaying
  /\ ~isLoadingTrack
  /\ currentTime > 0
  /\ pendingPlay = {}

\* C21's second case: a paused track resumed by a toggle and confirmed.
C21_ResumeWitness ==
  /\ last.op = "playResolved"
  /\ isPlaying
  /\ ~audio.paused
  /\ currentTime > 0
  /\ audio.currentTime = currentTime

\* C22: playTrack(i) with i the index of the cursor leaves the handle's source
\* and position, currentTime, duration and isLoadingTrack as they are and only
\* requests play; playTrack(i) with the index of another node makes that node the
\* cursor, sets isLoadingTrack, resets currentTime to 0, sets duration to the
\* duration recorded on the track (0 when none is) and assigns the track's
\* source to the handle.
C22_SelectSameOrOther ==
  [][(last'.op = "playTrack" /\ 0 <= last'.a /\ last'.a < playlist.length)
     => LET node == getNodeAt(playlist, last'.a)
            track == playlist.value[node]
        IN /\ currentNode' = node
           /\ currentTrackIndex' = last'.a
           /\ playlist' = playlist
           /\ ~audio'.paused
           /\ pendingPlay' = pendingPlay \cup {node}
           /\ IF last'.a = currentTrackIndex
              THEN /\ node = currentNode
                   /\ audio'.src = audio.src
                   /\ audio'.currentTime = audio.currentTime
                   /\ audio'.duration = audio.duration
                   /\ UNCHANGED <<currentTime, duration, isLoadingTrack, isPlaying>>
              ELSE /\ node # currentNode
                   /\ isLoadingTrack'
                   /\ currentTime' = 0
                   /\ duration' = trackDuration[track]
                   /\ audio'.src = track
                   /\ audio'.currentTime = 0
                   /\ audio'.duration = NaN]_vars

\* C22's case: the track that plays, at some time and with its metadata read, is
\* selected again.
C22_Witness ==
  /\ last.op = "playTrack"
  /\ last.a = currentTrackIndex
  /\ currentTime > 0
  /\ duration = TrackLen
  /\ ~isLoadingTrack
  /\ audio.currentTime = currentTime
  /\ IsFinite(audio.duration)

\* C22's second case: a track whose duration is known from an earlier load is
\* selected while another one is the cursor.
C22_SeededWitness ==
  /\ last.op = "playTrack"
  /\ isLoadingTrack
  /\ currentTime = 0
  /\ duration = TrackLen
  /\ audio.duration = NaN

\* C23: when a file-add batch completes, one track per accepted file is appended
\* at the tail, in the order of the files, and the tracks that were there keep
\* their positions; if there was no cursor the first appended track becomes the
\* cursor and play is requested; if there was a cursor, the cursor, isPlaying,
\* currentTime and duration are unchanged.
C23_BatchAppendsAtTail ==
  [][(last'.op = "filesReady")
     => LET old == toArray(playlist)
            new == toArray(playlist')
            newNodes == nodesForward(playlist')
            n == last'.a
        IN /\ Len(new) = Len(old) + n
           /\ SubSeq(new, 1, Len(old)) = old
           /\ SubSeq(newNodes, 1, Len(old)) = nodesForward(playlist)
           /\ \E k \in 1..Len(batches) :
                 /\ Len(batches[k]) = n
                 /\ batches' = SeqWithout(batches, k)
                 /\ \A j \in 1..n : trackFile'[new[Len(old) + j]] = batches[k][j]
           /\ \A j \in 1..Len(old) : trackFile'[old[j]] = trackFile[old[j]]
           /\ tracks' = new
           /\ IF currentNode = NULL
              THEN /\ currentNode' = newNodes[Len(old) + 1]
                   /\ currentTrackIndex' = Len(old)
                   /\ audio'.src = new[Len(old) + 1]
                   /\ ~audio'.paused
                   /\ pendingPlay' = pendingPlay \cup {currentNode'}
              ELSE UNCHANGED <<currentNode, currentTrackIndex, isPlaying,
                               isLoadingTrack, currentTime, duration, audio,
                               pendingPlay>>]_vars

\* C23's case: a batch completes behind a track that plays at some time.
C23_Witness ==
  /\ last.op = "filesReady"
  /\ last.a >= 1
  /\ playlist.length = 2
  /\ currentNode = playlist.head
  /\ isPlaying
  /\ currentTime > 0
  /\ duration = TrackLen

\* C23's second case: the first batch, of two files, completes: the first of
\* them is the cursor.
C23_FirstBatchWitness ==
  /\ last.op = "filesReady"
  /\ last.a = 2
  /\ currentNode = playlist.head
  /\ trackFile[playlist.value[playlist.head]] = "b.mp3"
  /\ trackFile[playlist.value[playlist.tail]] = "a.mp3"
  /\ isLoadingTrack
  /\ pendingPlay = {currentNode}

\* (b0 mod 128)*2^21 + (b1 mod 128)*2^14 + (b2 mod 128)*2^7 + (b3 mod 128)
LowSevenBits(bytes) ==
  (bytes[1] % 128) * 2097152 + (bytes[2] % 128) * 16384
    + (bytes[3] % 128) * 128 + (bytes[4] % 128)

\* C24: for every four bytes, readSynchsafeInteger and readSynchsafeFromView
\* return the number made of the low seven bits of each byte, most significant
\* byte first.
C24_SynchsafeLowSevenBits ==
  (last.op \in {"readSynchsafeInteger", "readSynchsafeFromView"})
    => last.ret = LowSevenBits(file)

\* The part of C24 that holds: when no byte has its high bit, both decoders
\* return the number made of the four groups of seven bits.
SynchsafeOfLowBytes ==
  (/\ last.op \in {"readSynchsafeInteger", "readSynchsafeFromView"}
   /\ \A i \in 1..4 : file[i] < 128)
    => last.ret = LowSevenBits(file)

\* What a picture frame with this MIME type and this payload is to give.
PictureOf(mime, image) ==
  IF image = <<>> THEN NoArtwork
  ELSE [kind |-> "image",
        type |-> IF mime = <<>> THEN ImageJpeg ELSE toLowerCase(mime),
        bytes |-> image]

\* C25: in a picture frame the MIME type, from byte 1 on, ends with one null
\* byte for the text encodings 0 and 3 and with a null pair for 1 and 2; an
\* empty MIME type stands for image/jpeg; one byte of picture type follows; the
\* description ends the same way; the payload is what follows it, and there is
\* no artwork when nothing does.
C25_MimeEndsByEncoding ==
  \A e \in TextEncodings, m \in MimeTypes, t \in PictureTypes, img \in Payloads :
    \A d \in Descriptions(e) :
      (/\ last.op = "parseApicFrame"
       /\ file = PictureFrame(e, m, Terminator(e), t, d, img))
        => artwork = PictureOf(m, img)

\* C25 as amended: the MIME type ends with one null byte whatever the text
\* encoding; the description ends with one null byte for the encodings 0 and 3
\* and with a null pair for 1 and 2.
C25_MimeEndsWithOneNull ==
  \A e \in TextEncodings, m \in MimeTypes, t \in PictureTypes, img \in Payloads :
    \A d \in Descriptions(e) :
      (/\ last.op = "parseApicFrame"
       /\ file = PictureFrame(e, m, <<0>>, t, d, img))
        => artwork = PictureOf(m, img)

\* C25's case: a frame in a two-byte encoding, its MIME type ended by one null
\* byte and its description by a null pair, gave its payload.
C25_Witness ==
  /\ last.op = "parseApicFrame"
  /\ file = PictureFrame(1, ImagePng, <<0>>, 3, <<100, 0>>, <<137, 80, 78, 71>>)
  /\ artwork = [kind |-> "image", type |-> ImagePng, bytes |-> <<137, 80, 78, 71>>]

\* C26: removeNode of a node that is not in the list leaves head, tail, size and
\* the order of the values as they are, and size is still the number of nodes
\* reached from head.
C26_RemoveAbsentNodeChangesNothing ==
  [][(last'.op = "removeNode" /\ last'.a \notin LiveNodes)
     => /\ playlist'.head = playlist.head
        /\ playlist'.tail = playlist.tail
        /\ playlist'.length = playlist.length
        /\ toArray(playlist') = toArray(playlist)
        /\ playlist'.length = Len(nodesForward(playlist'))]_vars

C28_LoadingEnds == isLoadingTrack ~> ~isLoadingTrack

\* C29: initially and after every operation of the controller, there is no
\* cursor exactly when the sequence is empty.
C29_NoCursorIffEmpty ==
  /\ (currentNode = NULL) <=> (playlist.length = 0)
  /\ (currentNode = NULL) <=> (tracks = <<>>)

\* C29's case: the tracks were removed one after the other; the removal of the
\* last one left no cursor.
C29_Witness ==
  /\ last.op = "removeTrack"
  /\ playlist.alloc >= 2
  /\ playlist.length = 0
  /\ currentNode = NULL
  /\ released[1] = 1
  /\ released[2] = 1

====
